---- MODULE Spec2Model ----
(***************************************************************************)
(* Kavak Monitor: the periodic verification cycle (verificar_monitoramentos)*)
(* and the per-item state machine (processar_monitoramento) of the two     *)
(* backends of the repository: backend/app.py ("app") and                  *)
(* backend/app_improved.py ("improved", the version with the quarantine    *)
(* circuit breaker).  Time is counted in minutes since a Monday 00:00.     *)
(***************************************************************************)
EXTENDS Integers, Sequences, FiniteSets, TLC

\* ------------------------------------------------------------ constants
FALHAS_PARA_VENDA == 3
LIMITE_FALHAS_SISTEMICAS == 70
QUARENTENA_MINUTOS == 30
CHECK_INTERVAL == 10
BATCH_SIZE == 50
PRAZO_DAYS == 45
\* app.py marks a car as sold after 2 consecutive failures (literal in code)
FALHAS_VENDA_APP == 2
\* deadline alert: "dias_restantes <= 5"
ALERTA_PRAZO_DIAS == 5
\* weekly update: Friday (weekday() == 4), between 10h00 and 10h59
DIA_SEMANAL == 4
HORA_SEMANAL == 10
\* verificar_link: the cache key changes every 300 seconds
CACHE_MINUTOS == 5
\* app.py check_rate_limit: "if tentativas > 20", timedelta(hours=1) in minutes
LIMITE_TENTATIVAS == 20
UMA_HORA == 60
\* app.py: os.getenv('MAX_MONITORAMENTOS_POR_IP', '10')
MAX_MONITORAMENTOS_POR_IP == 10

\* ------------------------------------------------------------ bounds
NumItems == 2
MaxCiclos == 4
\* environment faults injected in one run: no internet, a worker exception,
\* a failed commit
MaxFaltas == 1
\* the values of the environment variables BATCH_SIZE and CHECK_INTERVAL in
\* the deployments started with a batch smaller than the table, resp. with a
\* check interval shorter than the life of a cache key
LoteMenor == 1
IntervaloCurto == 2
\* steps of clock time over which single calls of the prober and of the rate
\* limiter are followed
MaxRelogio == 6
\* minutes between two moments at which one origin IP sends create requests:
\* more than half an hour and less than an hour
PassoIP == 40
\* create requests one origin IP sends in one run
MaxTentativas == 22
\* create requests of one origin IP that are handled at the same time
NumPedidos == 2

MinutosPorDia == 24 * 60
Items == 1..NumItems
Pedidos == 1..NumPedidos
Versoes == {"app", "improved"}
Kinds == {"venda", "prazo", "expirado", "semanal"}

\* The scheduler is started on a Thursday at 23:40 (improved) or on a Friday
\* at 09:30 (app); day 52 is a Thursday, day 53 a Friday.  The first cycles
\* then cross midnight, resp. enter the weekly window.
Inicio(v) ==
    IF v = "improved" THEN (52 * MinutosPorDia) + (23 * 60) + 40
    ELSE (53 * MinutosPorDia) + (9 * 60) + 30
\* data_venda (a day number) of the items.  Either every deadline is far away
\* (day 45 + 45), or the deadline of item 1 falls on day 58 and that of item 2
\* on day 53.
Cenarios == {"longe", "prazo"}
DataVenda(c, i) ==
    IF c = "prazo" /\ i = 1 THEN 13 ELSE IF c = "prazo" /\ i = 2 THEN 8 ELSE 45

\* class TipoErro
TipoErro == {"sucesso", "timeout", "dns_error", "connection_error",
             "http_404", "http_500", "http_other", "unknown"}
\* the probe outcomes the environment produces in the model; app.py only sees
\* status_code == 200 or not, so one failing answer stands for all of them
Respostas(v) ==
    IF v = "improved" THEN {"sucesso", "http_404", "timeout"} ELSE {"sucesso", "http_404"}

VARIABLES
    versao,                 \* which backend runs: "app" or "improved"
    config,                 \* os.getenv: BATCH_SIZE and CHECK_INTERVAL of the process
    cache,                  \* lru_cache of verificar_link_com_cache: id -> <<key, answer>>
    espera,                 \* history: batches fetched since the item was last in one
    now,                    \* datetime.now(), in minutes
    ciclos,                 \* number of cycles the scheduler has triggered
    pc,                     \* position of verificar_monitoramentos
    db,                     \* table monitoramentos: id -> row
    system_health,          \* table system_health (append-only)
    sistema_em_quarentena,  \* global flag
    quarentena_ate,         \* global: <<>> (None) or <<t>>
    monitoramentos,         \* the fetched batch: id -> row as read
    futures,                \* id -> outcome of the worker of that item
    entregas,               \* history: confirmed deliveries per item and kind
    faltas,                 \* environment faults injected so far
    serie,                  \* history: the error kinds of the current failure streak
    pedidos,                \* history: outbound probe requests sent per link
    retorno,                \* the last call of verificar_link: what it got and returned
    preflight,              \* a running call of a preflight check, <<>> when none
    rate_limit,             \* table rate_limit: the row of one origin IP, <<>> when none
    historico,              \* history: the attempts of that IP in the last two moments
    ativos_ip,              \* table monitoramentos: active rows of that IP
    criacao                 \* the running calls of criar_monitoramento of that IP

\* the state of the components that are exercised on their own
outros == <<pedidos, retorno, preflight>>
\* the state behind POST /api/monitoramentos for one origin IP
web == <<rate_limit, historico, ativos_ip, criacao>>

vars == <<versao, config, cache, espera, now, ciclos, pc, db, system_health, sistema_em_quarentena,
          quarentena_ate, monitoramentos, futures, entregas, faltas, serie, outros, web>>

\* ------------------------------------------------------------ helpers
Min(a, b) == IF a < b THEN a ELSE b
Max(a, b) == IF a > b THEN a ELSE b
dia(t) == t \div MinutosPorDia
hora(t) == (t % MinutosPorDia) \div 60
weekday(t) == dia(t) % 7

\* a new row, as inserted by criar_monitoramento with the column defaults
NovaLinha(dv, criado) ==
    [status |-> "ativo", carro_vendido |-> 0, notificado_venda |-> 0,
     notificado_prazo |-> 0, notificado_expirado |-> 0,
     ultima_notificacao_semanal |-> <<>>, falhas_consecutivas |-> 0,
     ultimo_erro |-> "None", ultima_verificacao |-> criado, data_venda |-> dv]

\* one optional key of an updates dict
Campo(cond, chave, valor) == IF cond THEN chave :> valor ELSE <<>>

\* outcome of one enviar_notificacao call: not called, confirmed, not delivered
Envio(tenta, ok) == IF ~tenta THEN "nao" ELSE IF ok THEN "ok" ELSE "falhou"

Pendente == [estado |-> "pendente", probe |-> "nenhum",
             envios |-> [k \in Kinds |-> "nao"], updates |-> <<>>]
\* future.result() raised: the worker's exception is caught and logged
Excecao == [estado |-> "erro", probe |-> "nenhum",
            envios |-> [k \in Kinds |-> "nao"], updates |-> <<>>]

\* ------------------------------------------------------------ dates
\* app.py: calendar dates only, never negative
calcular_dias_restantes(data_venda) ==
    Max(0, (data_venda + PRAZO_DAYS) - dia(now))

\* app_improved.py: (data_venda + timedelta(days=45) - datetime.now()).days
dias_restantes_improved(data_venda) ==
    (((data_venda + PRAZO_DAYS) * MinutosPorDia) - now) \div MinutosPorDia

\* app.py: (datetime.now() - data_venda).days
dias_desde_venda(data_venda) ==
    (now - (data_venda * MinutosPorDia)) \div MinutosPorDia

\* ------------------------------------------------------------ decisions
erros_suspeitos == {"timeout", "dns_error", "connection_error", "http_500"}

\* mutant: no extra failure for the ambiguous kinds
falhas_necessarias_sem_margem(tipo_erro) == FALHAS_PARA_VENDA

falhas_necessarias(tipo_erro) ==
    IF tipo_erro \in erros_suspeitos THEN FALHAS_PARA_VENDA + 1 ELSE FALHAS_PARA_VENDA

\* mutant: "==" instead of ">="
atingiu_falhas_igual(mon, falhas, tipo_erro) ==
    falhas = falhas_necessarias(tipo_erro) /\ mon.carro_vendido = 0

\* "if falhas >= falhas_necessarias and not monitoramento['carro_vendido']"
atingiu_falhas(mon, falhas, tipo_erro) ==
    falhas >= falhas_necessarias(tipo_erro) /\ mon.carro_vendido = 0

\* mutant: the quarantine flag is not consulted
marca_vendido_sem_quarentena(mon, falhas, tipo_erro, quarentena) ==
    atingiu_falhas(mon, falhas, tipo_erro)

\* "if not sistema_em_quarentena: updates['carro_vendido'] = 1"
marca_vendido(mon, falhas, tipo_erro, quarentena) ==
    atingiu_falhas(mon, falhas, tipo_erro) /\ ~quarentena

\* mutant: the sale notification is sent only for the ambiguous kinds
notifica_venda_so_suspeitos(mon, falhas, tipo_erro, quarentena) ==
    /\ marca_vendido(mon, falhas, tipo_erro, quarentena)
    /\ mon.notificado_venda = 0
    /\ tipo_erro \in erros_suspeitos

\* mutant: the sale notification is sent outside the quarantine check
notifica_venda_sem_quarentena(mon, falhas, tipo_erro, quarentena) ==
    atingiu_falhas(mon, falhas, tipo_erro) /\ mon.notificado_venda = 0

\* the sale notification is sent inside the branch that marks the car sold
notifica_venda(mon, falhas, tipo_erro, quarentena) ==
    marca_vendido(mon, falhas, tipo_erro, quarentena) /\ mon.notificado_venda = 0

\* mutant: the marker is written whenever a send was attempted
marcador_sem_confirmacao(envio) == envio # "nao"

\* "if enviar_notificacao(...): updates[marker] = 1"
marcador(envio) == envio = "ok"

\* mutant: off by one in the reset condition
reseta_falhas_acima_de_um(mon) == mon.falhas_consecutivas > 1

\* "if monitoramento['falhas_consecutivas'] > 0: updates['falhas_consecutivas'] = 0"
reseta_falhas(mon) == mon.falhas_consecutivas > 0

\* mutant: the deadline alert is held back like the sale notification
alerta_prazo_com_quarentena(mon, dias_restantes) ==
    /\ dias_restantes <= ALERTA_PRAZO_DIAS
    /\ dias_restantes > 0
    /\ mon.notificado_prazo = 0
    /\ ~sistema_em_quarentena

\* "dias_restantes <= 5 and dias_restantes > 0 and not notificado_prazo"
alerta_prazo(mon, dias_restantes) ==
    dias_restantes <= ALERTA_PRAZO_DIAS /\ dias_restantes > 0 /\ mon.notificado_prazo = 0

\* mutant: both backends test "dias_restantes < 0"
prazo_expirado_estrito(dias_restantes) == dias_restantes < 0

\* "if dias_restantes <= 0:" (app.py), "if dias_restantes < 0:" (app_improved.py)
prazo_expirado(dias_restantes) ==
    IF versao = "improved" THEN dias_restantes < 0 ELSE dias_restantes <= 0

\* app.py: deve_notificar_semanal and dias_restantes > 0
notifica_semanal(mon, dias_restantes) ==
    /\ mon.carro_vendido = 0
    /\ mon.status = "ativo"
    /\ weekday(now) = DIA_SEMANAL
    /\ hora(now) = HORA_SEMANAL
    /\ IF mon.ultima_notificacao_semanal = <<>>
       THEN dias_desde_venda(mon.data_venda) >= 1
       ELSE dia(mon.ultima_notificacao_semanal[1]) < dia(now)
    /\ dias_restantes > 0

\* ------------------------------------------------------------ workers
\* app_improved.py processar_monitoramento; tipo_erro is the probe's answer,
\* ok[k] says whether a send of kind k would be confirmed.
processar_improved(mon, tipo_erro, ok) ==
    LET dias_restantes == dias_restantes_improved(mon.data_venda)
        link_online == tipo_erro = "sucesso"
        falhas == mon.falhas_consecutivas + 1
        vendido == ~link_online
                   /\ marca_vendido(mon, falhas, tipo_erro, sistema_em_quarentena)
        e_venda == Envio(~link_online
                         /\ notifica_venda(mon, falhas, tipo_erro, sistema_em_quarentena),
                         ok["venda"])
        e_prazo == Envio(alerta_prazo(mon, dias_restantes), ok["prazo"])
    IN  IF prazo_expirado(dias_restantes)
        THEN [estado |-> "ok", probe |-> "nenhum",
              envios |-> [k \in Kinds |-> "nao"],
              updates |-> [ultima_verificacao |-> now, status |-> "expirado"]]
        ELSE [estado |-> "ok", probe |-> tipo_erro,
              envios |-> [k \in Kinds |->
                            IF k = "venda" THEN e_venda
                            ELSE IF k = "prazo" THEN e_prazo ELSE "nao"],
              updates |->
                 [ultima_verificacao |-> now]
                 @@ Campo(~link_online, "falhas_consecutivas", falhas)
                 @@ Campo(~link_online, "ultimo_erro", tipo_erro)
                 @@ Campo(vendido, "carro_vendido", 1)
                 @@ Campo(marcador(e_venda), "notificado_venda", 1)
                 @@ Campo(link_online /\ reseta_falhas(mon), "falhas_consecutivas", 0)
                 @@ Campo(link_online /\ reseta_falhas(mon), "ultimo_erro", "None")
                 @@ Campo(marcador(e_prazo), "notificado_prazo", 1)]

\* app.py processar_monitoramento (the probe only tells online / offline)
processar_app(mon, tipo_erro, ok) ==
    LET dias_restantes == calcular_dias_restantes(mon.data_venda)
        link_online == tipo_erro = "sucesso"
        falhas == mon.falhas_consecutivas + 1
        vendido == ~link_online /\ falhas >= FALHAS_VENDA_APP /\ mon.carro_vendido = 0
        e_expirado == Envio(mon.notificado_expirado = 0, ok["expirado"])
        e_venda == Envio(vendido /\ mon.notificado_venda = 0, ok["venda"])
        e_prazo == Envio(alerta_prazo(mon, dias_restantes), ok["prazo"])
        e_semanal == Envio(notifica_semanal(mon, dias_restantes), ok["semanal"])
    IN  IF prazo_expirado(dias_restantes)
        THEN [estado |-> "ok", probe |-> "nenhum",
              envios |-> [k \in Kinds |-> IF k = "expirado" THEN e_expirado ELSE "nao"],
              updates |->
                 [ultima_verificacao |-> now, status |-> "expirado"]
                 @@ Campo(marcador(e_expirado), "notificado_expirado", 1)]
        ELSE [estado |-> "ok", probe |-> tipo_erro,
              envios |-> [k \in Kinds |->
                            IF k = "venda" THEN e_venda
                            ELSE IF k = "prazo" THEN e_prazo
                            ELSE IF k = "semanal" THEN e_semanal ELSE "nao"],
              updates |->
                 [ultima_verificacao |-> now]
                 @@ Campo(~link_online, "falhas_consecutivas", falhas)
                 @@ Campo(vendido, "carro_vendido", 1)
                 @@ Campo(marcador(e_venda), "notificado_venda", 1)
                 @@ Campo(link_online /\ reseta_falhas(mon), "falhas_consecutivas", 0)
                 @@ Campo(marcador(e_prazo), "notificado_prazo", 1)
                 @@ Campo(marcador(e_semanal), "ultima_notificacao_semanal", <<now>>)]

processar_monitoramento(mon, tipo_erro, ok) ==
    IF versao = "improved" THEN processar_improved(mon, tipo_erro, ok)
    ELSE processar_app(mon, tipo_erro, ok)

\* ------------------------------------------------------------ initial state
\* the configuration when the environment sets neither variable
ConfigPadrao == [batch_size |-> BATCH_SIZE, check_interval |-> CHECK_INTERVAL]

InitConfig(v, cfg) ==
    /\ versao = v
    /\ config = cfg
    /\ cache = [i \in Items |-> <<>>]
    /\ espera = [i \in Items |-> 0]
    /\ pedidos = [i \in Items |-> 0]
    /\ retorno = <<>>
    /\ preflight = <<>>
    /\ rate_limit = <<>>
    /\ historico = [chamadas |-> 0, anterior |-> 0, atual |-> 0, excesso |-> FALSE]
    /\ ativos_ip = 0
    /\ criacao = [p \in Pedidos |-> [pc |-> "livre", total |-> 0]]
    /\ now = Inicio(v)
    /\ ciclos = 0
    /\ pc = "idle"
    /\ \E c \in Cenarios :
          db = [i \in Items |-> NovaLinha(DataVenda(c, i), Inicio(v))]
    /\ system_health = <<>>
    /\ sistema_em_quarentena = FALSE
    /\ quarentena_ate = <<>>
    /\ monitoramentos = <<>>
    /\ futures = <<>>
    /\ entregas = [i \in Items |-> [k \in Kinds |-> 0]]
    /\ faltas = 0
    /\ serie = [i \in Items |-> "nenhuma"]

InitVersao(v) == InitConfig(v, ConfigPadrao)

Init == \E v \in Versoes : InitVersao(v)
InitImproved == InitVersao("improved")
InitApp == InitVersao("app")
\* app_improved.py started with BATCH_SIZE=1, resp. with CHECK_INTERVAL=2
InitLote == InitConfig("improved", [ConfigPadrao EXCEPT !.batch_size = LoteMenor])
InitCache == InitConfig("improved", [ConfigPadrao EXCEPT !.check_interval = IntervaloCurto])

\* ------------------------------------------------------------ the cycle
\* mutant: the scheduler starts a run while the previous one is executing
job_em_execucao_ignorado == FALSE

\* scheduler.add_job(...) without max_instances: APScheduler keeps at most one
\* running instance of the job
job_em_execucao == pc # "idle"

\* mutant: the key of the cache does not change with the time
cache_timestamp_fixo(t) == 0

\* "cache_timestamp = int(datetime.now().timestamp() / 300)"
cache_timestamp(t) == t \div CACHE_MINUTOS

\* The entries of the cache that a call at time t can still return.  Time
\* only moves forward, so an entry under an older key is never returned
\* again and the model drops it.
cache_vigente(t) ==
    [i \in Items |->
        IF cache[i] # <<>> /\ cache[i][1] = cache_timestamp(t) THEN cache[i] ELSE <<>>]

\* IntervalTrigger(minutes=CHECK_INTERVAL): the job runs verificar_monitoramentos
Disparar ==
    /\ ~job_em_execucao
    /\ ciclos < MaxCiclos
    /\ now' = now + config.check_interval
    /\ cache' = cache_vigente(now')
    /\ ciclos' = ciclos + 1
    /\ pc' = IF versao = "improved" THEN "passo1" ELSE "passo4"
    /\ UNCHANGED <<web, outros, versao, config, espera, db, system_health, sistema_em_quarentena, quarentena_ate,
                   monitoramentos, futures, entregas, faltas, serie>>

\* mutant: "<=" instead of "<"
quarentena_vigente_inclusive(agora, ate) == agora <= ate

\* "if datetime.now() < quarentena_ate" : the quarantine is still running
quarentena_vigente(agora, ate) == agora < ate

\* PASSO 1: lazily clear an expired quarantine
Passo1 ==
    /\ pc = "passo1"
    /\ IF sistema_em_quarentena /\ quarentena_ate # <<>>
          /\ ~quarentena_vigente(now, quarentena_ate[1])
       THEN sistema_em_quarentena' = FALSE /\ quarentena_ate' = <<>>
       ELSE UNCHANGED <<sistema_em_quarentena, quarentena_ate>>
    /\ pc' = "passo2"
    /\ UNCHANGED <<web, outros, versao, config, cache, espera, now, ciclos, db, system_health, monitoramentos, futures,
                   entregas, faltas, serie>>

\* mutant: the "return" after the failed preflight is missing
apos_preflight_sem_return(tem_internet) == "passo3"

\* "if not tem_internet: ... return"
apos_preflight(tem_internet) == IF tem_internet THEN "passo3" ELSE "idle"

\* PASSO 2: verificar_conectividade_servidor; without internet the cycle aborts
Passo2 ==
    /\ pc = "passo2"
    /\ \E tem_internet \in BOOLEAN :
          /\ tem_internet \/ faltas < MaxFaltas
          /\ pc' = apos_preflight(tem_internet)
          /\ faltas' = IF tem_internet THEN faltas ELSE faltas + 1
    /\ UNCHANGED <<web, outros, versao, config, cache, espera, now, ciclos, db, system_health, sistema_em_quarentena,
                   quarentena_ate, monitoramentos, futures, entregas, serie>>

\* mutant: the quarantine lasts one check interval
fim_quarentena_curto(agora) == agora + CHECK_INTERVAL

\* "quarentena_ate = datetime.now() + timedelta(minutes=QUARENTENA_MINUTOS)"
fim_quarentena(agora) == agora + QUARENTENA_MINUTOS

\* PASSO 3: verificar_saude_kavak; the provider being down starts a quarantine
Passo3 ==
    /\ pc = "passo3"
    /\ \E kavak_online \in BOOLEAN :
          IF kavak_online
          THEN UNCHANGED <<sistema_em_quarentena, quarentena_ate>>
          ELSE /\ sistema_em_quarentena' = TRUE
               /\ quarentena_ate' = <<fim_quarentena(now)>>
    /\ serie' = IF quarentena_ate' # quarentena_ate
                THEN [i \in Items |-> IF serie[i] = "nenhuma" THEN serie[i] ELSE "mista"]
                ELSE serie
    /\ pc' = "passo4"
    /\ UNCHANGED <<web, outros, versao, config, cache, espera, now, ciclos, db, system_health, monitoramentos, futures,
                   entregas, faltas>>

\* mutant: the WHERE clause is missing
Ativos_sem_filtro == Items

\* SELECT * FROM monitoramentos WHERE status = 'ativo'
\* ORDER BY ultima_verificacao ASC LIMIT ? (BATCH_SIZE)
Ativos == {i \in Items : db[i].status = "ativo"}

\* mutant: the ORDER BY clause is missing
Lotes_sem_ordem ==
    {S \in SUBSET Ativos : Cardinality(S) = Min(config.batch_size, Cardinality(Ativos))}

Lotes ==
    {S \in SUBSET Ativos :
        /\ Cardinality(S) = Min(config.batch_size, Cardinality(Ativos))
        /\ \A i \in S : \A j \in Ativos \ S :
              db[i].ultima_verificacao <= db[j].ultima_verificacao}

\* PASSO 4: fetch the batch; an empty batch ends the cycle
Passo4 ==
    /\ pc = "passo4"
    /\ \E S \in Lotes :
          /\ monitoramentos' = [i \in S |-> db[i]]
          /\ futures' = [i \in S |-> Pendente]
          /\ pc' = IF S = {} THEN "idle" ELSE "passo5"
          /\ espera' = [i \in Items |->
                           IF i \in Ativos \ S THEN Min(MaxCiclos, espera[i] + 1) ELSE 0]
    /\ UNCHANGED <<web, outros, versao, config, cache, now, ciclos, db, system_health, sistema_em_quarentena,
                   quarentena_ate, entregas, faltas, serie>>

\* History only: the kind shared by all failed probes of the item's current
\* failure streak, for a streak that began on an unsold item with the quarantine
\* off, whose cycles were all committed and during which the health check of
\* PASSO 3 started no quarantine; "mista" for any other streak.
ProximaSerie(anterior, mon, probe) ==
    IF probe = "nenhum" THEN anterior
    ELSE IF probe = "sucesso" THEN "nenhuma"
    ELSE IF mon.falhas_consecutivas = 0
         THEN (IF ~sistema_em_quarentena /\ mon.carro_vendido = 0 THEN probe ELSE "mista")
         ELSE (IF anterior = probe THEN probe ELSE "mista")

\* lru_cache: a call with the key of an earlier call returns that call's answer
\* and sends no request
cache_hit(i) == cache[i] # <<>> /\ cache[i][1] = cache_timestamp(now)

\* verificar_link: the cached answer, or the answer of a new request
verificar_link(i, resposta) == IF cache_hit(i) THEN cache[i][2] ELSE resposta

\* mutant: a worker that meets a suspicious error starts the quarantine itself
quarentena_apos_worker_ativa(quarentena, tipo_erro) ==
    quarentena \/ tipo_erro \in erros_suspeitos

\* "global sistema_em_quarentena" in processar_monitoramento: the worker reads
\* the flag and never assigns it
quarentena_apos_worker(quarentena, tipo_erro) == quarentena

\* PASSO 5: one worker of the pool runs processar_monitoramento on one item
Processar(i) ==
    /\ pc = "passo5"
    /\ i \in DOMAIN futures
    /\ futures[i].estado = "pendente"
    /\ \E resposta \in Respostas(versao), ok \in [Kinds -> BOOLEAN] :
          LET tipo_erro == verificar_link(i, resposta)
              r == processar_monitoramento(monitoramentos[i], tipo_erro, ok) IN
          \* ok[k] only matters for the kinds that are sent
          /\ \A k \in Kinds : r.envios[k] = "nao" => ok[k]
          /\ cache' = IF r.probe = "nenhum" THEN cache
                      ELSE [cache EXCEPT ![i] = <<cache_timestamp(now), tipo_erro>>]
          /\ futures' = [futures EXCEPT ![i] = r]
          /\ entregas' = [entregas EXCEPT ![i] =
                 [k \in Kinds |-> IF r.envios[k] = "ok"
                                  THEN Min(2, entregas[i][k] + 1)
                                  ELSE entregas[i][k]]]
          /\ serie' = [serie EXCEPT ![i] = ProximaSerie(serie[i], monitoramentos[i], r.probe)]
          /\ sistema_em_quarentena' = quarentena_apos_worker(sistema_em_quarentena, tipo_erro)
    /\ UNCHANGED <<web, outros, versao, config, espera, now, ciclos, pc, db, system_health,
                   quarentena_ate, monitoramentos, faltas>>

\* the worker of one item raises: "except Exception" logs it, no update is kept
FalhaWorker(i) ==
    /\ pc = "passo5"
    /\ i \in DOMAIN futures
    /\ futures[i].estado = "pendente"
    /\ faltas < MaxFaltas
    /\ faltas' = faltas + 1
    /\ futures' = [futures EXCEPT ![i] = Excecao]
    /\ UNCHANGED <<web, outros, versao, config, cache, espera, now, ciclos, pc, db, system_health, sistema_em_quarentena,
                   quarentena_ate, monitoramentos, entregas, serie>>

\* mutant: the run waits until every worker has returned a result
Concluidos_so_resultados == \A i \in DOMAIN futures : futures[i].estado = "ok"

\* "for future in as_completed(futures)": the loop ends once every future is
\* done, with a result or with an exception
Concluidos == \A i \in DOMAIN futures : futures[i].estado # "pendente"

\* mutant: one worker's exception discards the results of the whole batch
updates_list_aborta ==
    IF \E i \in DOMAIN futures : futures[i].estado = "erro" THEN {}
    ELSE {i \in DOMAIN futures : futures[i].estado = "ok"}

\* updates_list: the updates of the workers that returned
updates_list == {i \in DOMAIN futures : futures[i].estado = "ok"}

\* mutant: counts the rows whose failure counter is above 0 once the cycle is
\* written, probed in this cycle or not
total_falhas_persistido ==
    Cardinality({i \in DOMAIN monitoramentos :
        (IF i \in updates_list THEN futures[i].updates @@ db[i]
         ELSE db[i]).falhas_consecutivas > 0})

\* "if updates.get('falhas_consecutivas', 0) > 0: total_falhas += 1"
total_falhas ==
    Cardinality({i \in updates_list :
        /\ "falhas_consecutivas" \in DOMAIN futures[i].updates
        /\ futures[i].updates["falhas_consecutivas"] > 0})

\* mutant: the ratio is compared without the "* 100"
problema_sistemico_sem_porcento(falhas, verificados) ==
    falhas >= LIMITE_FALHAS_SISTEMICAS * verificados

\* "porcentagem_falhas >= LIMITE_FALHAS_SISTEMICAS", with
\* porcentagem_falhas = (total_falhas / len(monitoramentos)) * 100
problema_sistemico(falhas, verificados) ==
    falhas * 100 >= LIMITE_FALHAS_SISTEMICAS * verificados

\* PASSO 6: system health analysis (app_improved.py only)
Passo6 ==
    /\ pc = "passo5"
    /\ versao = "improved"
    /\ Concluidos
    /\ LET verificados == Cardinality(DOMAIN monitoramentos) IN
       IF problema_sistemico(total_falhas, verificados)
       THEN /\ sistema_em_quarentena' = TRUE
            /\ quarentena_ate' = <<fim_quarentena(now)>>
            /\ system_health' = Append(system_health,
                   [total_verificados |-> verificados,
                    total_falhas |-> total_falhas,
                    porcentagem_falhas |-> (total_falhas * 100) \div verificados,
                    sistema_saudavel |-> 0])
       ELSE UNCHANGED <<sistema_em_quarentena, quarentena_ate, system_health>>
    /\ pc' = "passo7"
    /\ UNCHANGED <<web, outros, versao, config, cache, espera, now, ciclos, db, monitoramentos, futures, entregas, faltas, serie>>

ProntoParaPersistir ==
    IF versao = "improved" THEN pc = "passo7" ELSE pc = "passo5" /\ Concluidos

\* mutant: the row is rewritten, columns without an update get their defaults
aplica_updates_substitui(updates, linha) ==
    updates @@ NovaLinha(linha.data_venda, linha.ultima_verificacao)

\* "UPDATE monitoramentos SET {set_clause} WHERE id = ?": only the columns
\* named in updates change
aplica_updates(updates, linha) == updates @@ linha

\* PASSO 7: UPDATE monitoramentos SET ... WHERE id = ? for every update, commit
Passo7 ==
    /\ ProntoParaPersistir
    /\ db' = [i \in Items |->
                IF i \in updates_list THEN aplica_updates(futures[i].updates, db[i])
                ELSE db[i]]
    /\ pc' = "idle"
    /\ monitoramentos' = <<>>
    /\ futures' = <<>>
    /\ UNCHANGED <<web, outros, versao, config, cache, espera, now, ciclos, system_health, sistema_em_quarentena,
                   quarentena_ate, entregas, faltas, serie>>

\* PASSO 7 raises (sqlite3.OperationalError, e.g. "database is locked"): nothing
\* is committed and the exception ends the job run
Passo7Falha ==
    /\ ProntoParaPersistir
    /\ updates_list # {}
    /\ faltas < MaxFaltas
    /\ faltas' = faltas + 1
    /\ pc' = "idle"
    /\ monitoramentos' = <<>>
    /\ futures' = <<>>
    /\ serie' = [i \in Items |->
                   IF i \in updates_list /\ serie[i] # "nenhuma" THEN "mista" ELSE serie[i]]
    /\ UNCHANGED <<web, outros, versao, config, cache, espera, now, ciclos, db, system_health, sistema_em_quarentena,
                   quarentena_ate, entregas>>

\* The trigger fires while the previous run is still executing (here: the
\* run is waiting to write its updates): the scheduler skips the execution,
\* only time has passed.
DispararIgnorado ==
    /\ job_em_execucao
    /\ ProntoParaPersistir
    /\ faltas < MaxFaltas
    /\ faltas' = faltas + 1
    /\ now' = now + config.check_interval
    /\ cache' = cache_vigente(now')
    /\ UNCHANGED <<web, outros, versao, config, espera, ciclos, pc, db, system_health, sistema_em_quarentena,
                   quarentena_ate, monitoramentos, futures, entregas, serie>>

Next ==
    \/ Disparar
    \/ DispararIgnorado
    \/ Passo1
    \/ Passo2
    \/ Passo3
    \/ Passo4
    \/ \E i \in Items : Processar(i)
    \/ \E i \in Items : FalhaWorker(i)
    \/ Passo6
    \/ Passo7
    \/ Passo7Falha

\* app.py has neither the preflight nor the health analysis
NextApp ==
    \/ Disparar
    \/ DispararIgnorado
    \/ Passo4
    \/ \E i \in Items : Processar(i)
    \/ \E i \in Items : FalhaWorker(i)
    \/ Passo7
    \/ Passo7Falha

\* the cycles of app_improved.py in which every commit succeeds and every run
\* ends before the next trigger: the only faults are a failed preflight and a
\* worker that raises
NextSemPerda ==
    \/ Disparar
    \/ Passo1
    \/ Passo2
    \/ Passo3
    \/ Passo4
    \/ \E i \in Items : Processar(i)
    \/ \E i \in Items : FalhaWorker(i)
    \/ Passo6
    \/ Passo7

Spec == Init /\ [][Next]_vars
SpecImproved == InitImproved /\ [][Next]_vars
SpecApp == InitApp /\ [][NextApp]_vars
SpecLote == InitLote /\ [][Next]_vars
SpecLoteSemPerda == InitLote /\ [][NextSemPerda]_vars
SpecCache == InitCache /\ [][Next]_vars

\* ------------------------------------------------------------ the prober
\* what requests.get can produce: a response with a status code, or one of the
\* exceptions told apart by verificar_link_detalhado
StatusCodes == {100, 200, 201, 204, 299, 301, 304, 400, 403, 404, 410, 499,
                500, 503, 599}
\* str(e) of a ConnectionError: name-resolution failures of the platforms,
\* and a refused connection
MensagensDNS == {"Name or service not known", "getaddrinfo failed",
                 "Temporary failure in name resolution"}
MensagensConexao == {"Connection refused"}
Resultados ==
    [classe : {"response"}, status : StatusCodes, mensagem : {""}]
    \cup [classe : {"Timeout", "Exception"}, status : {0}, mensagem : {""}]
    \cup [classe : {"ConnectionError"}, status : {0},
          mensagem : MensagensDNS \cup MensagensConexao]

\* verificar_link_detalhado: the TipoErro of an outcome (online is tipo = sucesso)
verificar_link_detalhado(r) ==
    IF r.classe = "response"
    THEN (IF r.status = 200 THEN "sucesso"
          ELSE IF r.status = 404 THEN "http_404"
          ELSE IF r.status >= 500 THEN "http_500"
          ELSE "http_other")
    ELSE IF r.classe = "Timeout" THEN "timeout"
    ELSE IF r.classe = "ConnectionError"
         THEN (IF r.mensagem \in {"Name or service not known", "getaddrinfo failed"}
               THEN "dns_error" ELSE "connection_error")
    ELSE "unknown"

\* the variables of the verification cycle that a call of the prober leaves alone
foraDaSonda == <<versao, config, espera, ciclos, pc, db, system_health,
                 sistema_em_quarentena, quarentena_ate, monitoramentos, futures,
                 entregas, faltas, serie, web>>

\* one call of verificar_link(link): lru_cache returns the answer stored under
\* (link, key) or calls verificar_link_com_cache, which sends the request
Sondar(i) ==
    /\ pc = "idle"
    /\ LET chave == cache_timestamp(now)
           hit == cache[i] # <<>> /\ cache[i][1] = chave
       IN  IF hit
           THEN /\ retorno' = [link |-> i, chave |-> chave, pedido |-> <<>>,
                               tipo_erro |-> cache[i][2]]
                /\ UNCHANGED <<cache, pedidos>>
           ELSE \E r \in Resultados :
                   /\ retorno' = [link |-> i, chave |-> chave, pedido |-> <<r>>,
                                  tipo_erro |-> verificar_link_detalhado(r)]
                   /\ cache' = [cache EXCEPT ![i] = <<chave, verificar_link_detalhado(r)>>]
                   /\ pedidos' = [pedidos EXCEPT ![i] = pedidos[i] + 1]
    /\ UNCHANGED <<foraDaSonda, now, preflight>>

\* time passes between two calls
Tique ==
    /\ pc = "idle"
    /\ now < Inicio(versao) + MaxRelogio
    /\ now' = now + 1
    /\ UNCHANGED <<foraDaSonda, cache, outros>>

NextSonda ==
    \/ Tique
    \/ \E i \in Items : Sondar(i)

SpecSonda == InitImproved /\ [][NextSonda]_vars

\* ------------------------------------------------------------ the preflight
\* what one endpoint of a preflight check does when it is asked: answer 200,
\* answer another status, or make requests.get raise
RespostasSite == {"200", "503", "excecao"}
\* sites_teste of verificar_conectividade_servidor, urls_teste of
\* verificar_saude_kavak
NumSites(check) == IF check = "servidor" THEN 3 ELSE 2
Checks == {"servidor", "kavak"}

\* mutant: an exception ends the loop ("break" instead of "continue")
tenta_proximo_ate_excecao(resposta) == resposta # "excecao"

\* the loop goes on to the next endpoint after an exception or a status other
\* than 200
tenta_proximo(resposta) == TRUE

foraDoPreflight == <<versao, config, cache, espera, now, ciclos, pc, db, system_health,
                     sistema_em_quarentena, quarentena_ate, monitoramentos, futures,
                     entregas, faltas, serie, pedidos, retorno, web>>

\* the check is called: the environment fixes what each endpoint would answer
ChamarPreflight ==
    /\ pc = "idle"
    /\ preflight = <<>>
    /\ \E check \in Checks :
         \E sites \in [1..NumSites(check) -> RespostasSite] :
            preflight' = [check |-> check, sites |-> sites, site |-> 1,
                          tentados |-> {}, resultado |-> "pendente"]
    /\ UNCHANGED foraDoPreflight

\* one iteration of "for site in sites_teste"
TentarSite ==
    /\ preflight # <<>>
    /\ preflight.resultado = "pendente"
    /\ preflight.site <= Len(preflight.sites)
    /\ LET resposta == preflight.sites[preflight.site] IN
       preflight' = [preflight EXCEPT
           !.tentados = @ \cup {preflight.site},
           !.resultado = IF resposta = "200" THEN "True"
                         ELSE IF tenta_proximo(resposta) THEN "pendente" ELSE "False",
           !.site = @ + 1]
    /\ UNCHANGED foraDoPreflight

\* the list is exhausted: return False
FimPreflight ==
    /\ preflight # <<>>
    /\ preflight.resultado = "pendente"
    /\ preflight.site > Len(preflight.sites)
    /\ preflight' = [preflight EXCEPT !.resultado = "False"]
    /\ UNCHANGED foraDoPreflight

NextPreflight ==
    \/ ChamarPreflight
    \/ TentarSite
    \/ FimPreflight

SpecPreflight == InitImproved /\ [][NextPreflight]_vars

\* ------------------------------------------------------------ GET /api/health
\* health_check: the handler reports the quarantine state while the cycle runs
\* in the scheduler's thread; it declares the two globals and only reads them.
\* The response keeps what is read from the globals; 'timestamp' and
\* 'minutos_restantes' are the clock and quarentena_ate minus the clock.
health_check ==
    /\ LET ativa == sistema_em_quarentena /\ quarentena_ate # <<>> IN
       retorno' = [quarentena |-> sistema_em_quarentena,
                   quarentena_ate |-> IF ativa THEN quarentena_ate ELSE <<>>]
    /\ UNCHANGED <<foraDaSonda, now, cache, pedidos, preflight>>

\* the cycles of app_improved.py without lost commits, with requests to
\* /api/health arriving at any time
NextSaude ==
    \/ NextSemPerda
    \/ health_check

SpecSaude == InitImproved /\ [][NextSaude]_vars

\* ------------------------------------------------------------ liveness
\* Every step of a run ends in bounded time (each request carries a timeout:
\* 5 s and 10 s in the preflight, REQUEST_TIMEOUT in the probe, 10 s in the
\* send) and the interval trigger keeps firing, so a step that stays possible
\* is eventually taken.
SpecVivo == InitImproved /\ [][NextSemPerda]_vars /\ WF_vars(NextSemPerda)

\* ------------------------------------------------------------ rate limiting
\* check_rate_limit(ip) on the row of that IP (linha, <<>> when there is none)
\* at time agora: whether the request may go on, and the row as written
check_rate_limit(linha, agora) ==
    IF linha = <<>>
    THEN [permitido |-> TRUE,
          linha |-> [tentativas |-> 1, ultima_tentativa |-> agora, bloqueado_ate |-> <<>>]]
    ELSE IF linha.bloqueado_ate # <<>> /\ agora < linha.bloqueado_ate[1]
    THEN [permitido |-> FALSE, linha |-> linha]
    ELSE IF agora - linha.ultima_tentativa > UMA_HORA
    THEN [permitido |-> TRUE,
          linha |-> [linha EXCEPT !.tentativas = 1, !.ultima_tentativa = agora]]
    ELSE IF linha.tentativas + 1 > LIMITE_TENTATIVAS
    THEN [permitido |-> FALSE,
          linha |-> [tentativas |-> linha.tentativas + 1, ultima_tentativa |-> agora,
                     bloqueado_ate |-> <<agora + UMA_HORA>>]]
    ELSE [permitido |-> TRUE,
          linha |-> [linha EXCEPT !.tentativas = @ + 1, !.ultima_tentativa = agora]]

\* History only: the attempts made at this moment and at the moment before
\* it, which are the attempts of the hour that ends now (two moments are
\* PassoIP minutes apart, three are more than an hour), and whether the block
\* standing in the row was set by an attempt that was the 21st or later of its
\* hour.
TentativasNaHora(h) == h.anterior + h.atual
HistoricoAposTentativa(h, antes, r) ==
    LET atual == Min(LIMITE_TENTATIVAS + 1, h.atual + 1) IN
    [chamadas |-> h.chamadas + 1,
     anterior |-> h.anterior,
     atual    |-> atual,
     excesso  |-> IF ~r.permitido /\ r.linha # antes
                  THEN h.anterior + atual > LIMITE_TENTATIVAS
                  ELSE h.excesso]

\* the variables that a create request and the passing of time between two
\* requests leave alone
foraDaWeb == <<versao, config, cache, espera, ciclos, pc, db, system_health,
               sistema_em_quarentena, quarentena_ate, monitoramentos, futures,
               entregas, faltas, serie, pedidos, preflight>>

\* one request of the IP reaches check_rate_limit
Tentar ==
    /\ pc = "idle"
    /\ historico.chamadas < MaxTentativas
    /\ LET r == check_rate_limit(rate_limit, now) IN
          /\ rate_limit' = r.linha
          /\ retorno' = [permitido |-> r.permitido]
          /\ historico' = HistoricoAposTentativa(historico, rate_limit, r)
    /\ UNCHANGED <<foraDaWeb, now, ativos_ip, criacao>>

\* PassoIP minutes pass without a request
EsperarIP ==
    /\ pc = "idle"
    /\ now < Inicio(versao) + (MaxRelogio * PassoIP)
    /\ now' = now + PassoIP
    /\ historico' = [historico EXCEPT !.anterior = historico.atual, !.atual = 0]
    /\ UNCHANGED <<foraDaWeb, retorno, rate_limit, ativos_ip, criacao>>

NextLimite ==
    \/ Tentar
    \/ EsperarIP

SpecLimite == InitApp /\ [][NextLimite]_vars

\* ------------------------------------------------------------ POST /api/monitoramentos
\* criar_monitoramento up to the per-IP limit: the rate limit, then
\* SELECT COUNT(*) ... WHERE ip_origem = ? AND status = 'ativo'; at the limit
\* the request ends with 429, below it the handler goes on to fetch the image
Receber(p) ==
    /\ pc = "idle"
    /\ criacao[p].pc = "livre"
    /\ historico.chamadas < MaxTentativas
    /\ LET r == check_rate_limit(rate_limit, now)
           total == ativos_ip
       IN  /\ rate_limit' = r.linha
           /\ historico' = HistoricoAposTentativa(historico, rate_limit, r)
           /\ IF ~r.permitido \/ total >= MAX_MONITORAMENTOS_POR_IP
              THEN /\ retorno' = [pedido |-> p, status |-> 429]
                   /\ UNCHANGED criacao
              ELSE /\ criacao' = [criacao EXCEPT ![p] = [pc |-> "extraindo", total |-> total]]
                   /\ UNCHANGED retorno
    /\ UNCHANGED <<foraDaWeb, now, ativos_ip>>

\* extrair_imagem_carro has returned: INSERT INTO monitoramentos, commit, 201
Inserir(p) ==
    /\ criacao[p].pc = "extraindo"
    /\ ativos_ip' = ativos_ip + 1
    /\ criacao' = [criacao EXCEPT ![p] = [pc |-> "livre", total |-> 0]]
    /\ retorno' = [pedido |-> p, status |-> 201]
    /\ UNCHANGED <<foraDaWeb, now, rate_limit, historico>>

\* the requests of one IP, each handled by a thread of its own
NextCriar ==
    \/ \E p \in Pedidos : Receber(p)
    \/ \E p \in Pedidos : Inserir(p)

SpecCriar == InitApp /\ [][NextCriar]_vars

\* ------------------------------------------------------------ properties
Falha(probe) == probe \in TipoErro \ {"sucesso"}

\* the step in which the worker of item i returns its updates
WorkerRetorna(i) ==
    /\ pc = "passo5"
    /\ i \in DOMAIN futures
    /\ futures[i].estado = "pendente"
    /\ i \in DOMAIN futures'
    /\ futures'[i].estado = "ok"

\* the idempotency marker of a notification kind in a row
MarcadorDe(linha, k) ==
    IF k = "venda" THEN <<linha.notificado_venda>>
    ELSE IF k = "prazo" THEN <<linha.notificado_prazo>>
    ELSE IF k = "expirado" THEN <<linha.notificado_expirado>>
    ELSE linha.ultima_notificacao_semanal

\* requiredFailures as the specification states it
RequiredFailures(kind) ==
    IF kind \in {"timeout", "dns_error", "connection_error", "http_500"}
    THEN FALHAS_PARA_VENDA + 1 ELSE FALHAS_PARA_VENDA

\* C1: for every item and each kind of sale, deadline-warning and expiry, the
\* channel confirms a delivery at most once, and the marker of the kind never
\* returns from 1 to 0; cycles whose updates are not persisted included.
C1_EntregaUnica ==
    [][\A i \in Items : \A k \in {"venda", "prazo", "expirado"} :
          /\ entregas'[i][k] <= 1
          /\ (MarcadorDe(db[i], k) = <<1>> => MarcadorDe(db'[i], k) = <<1>>)]_vars

\* C2: carro_vendido goes from 0 to 1 only in a cycle in which the probe of
\* the item failed and the failure count after the increment is at least
\* requiredFailures for the error kind of that cycle.
C2_VendaExigeFalhas ==
    [][\A i \in Items :
          (db[i].carro_vendido = 0 /\ db'[i].carro_vendido = 1) =>
             /\ i \in DOMAIN futures
             /\ Falha(futures[i].probe)
             /\ db'[i].falhas_consecutivas = db[i].falhas_consecutivas + 1
             /\ db'[i].falhas_consecutivas >= RequiredFailures(futures[i].probe)]_vars

\* an item was marked sold on its 4th failure, a timeout
C2_Witness ==
    \E i \in Items :
       /\ db[i].carro_vendido = 1
       /\ db[i].ultimo_erro = "timeout"
       /\ db[i].falhas_consecutivas = FALHAS_PARA_VENDA + 1

\* C3: while the quarantine is active no worker sends a sale notification, and
\* a failed probe still yields falhas_consecutivas + 1, the error kind and the
\* time of the check, which the commit of the cycle writes to the row.
C3_QuarentenaSemVenda ==
    [][/\ \A i \in Items :
            (WorkerRetorna(i) /\ sistema_em_quarentena) =>
               /\ futures'[i].envios["venda"] = "nao"
               /\ Falha(futures'[i].probe) =>
                     /\ futures'[i].updates["falhas_consecutivas"]
                           = monitoramentos[i].falhas_consecutivas + 1
                     /\ futures'[i].updates["ultimo_erro"] = futures'[i].probe
                     /\ futures'[i].updates["ultima_verificacao"] = now
       /\ Passo7 =>
            \A i \in updates_list :
               Falha(futures[i].probe) =>
                  /\ db'[i].falhas_consecutivas = db[i].falhas_consecutivas + 1
                  /\ db'[i].ultimo_erro = futures[i].probe
                  /\ db'[i].ultima_verificacao
                        = futures[i].updates["ultima_verificacao"]]_vars

\* under quarantine, a probe failed on an unsold item that reached the threshold
C3_Witness ==
    /\ pc = "passo5"
    /\ sistema_em_quarentena
    /\ \E i \in DOMAIN futures :
          /\ futures[i].estado = "ok"
          /\ Falha(futures[i].probe)
          /\ monitoramentos[i].carro_vendido = 0
          /\ futures[i].updates["falhas_consecutivas"] >= RequiredFailures(futures[i].probe)

C5_VendaReenviada ==
    [][\A i \in Items :
          (/\ WorkerRetorna(i)
           /\ monitoramentos[i].carro_vendido = 1
           /\ monitoramentos[i].notificado_venda = 0
           /\ Falha(futures'[i].probe)
           /\ ~sistema_em_quarentena)
          => futures'[i].envios["venda"] # "nao"]_vars

\* C6: a sale blocked by the quarantine (the stored count reached the
\* threshold of the stored error kind and the row is still unsold) is
\* attempted in the first cycle that processes the item with the quarantine
\* off, if the probe fails again.
C6_VendaAdiada ==
    [][\A i \in Items :
          (/\ WorkerRetorna(i)
           /\ monitoramentos[i].carro_vendido = 0
           /\ Falha(monitoramentos[i].ultimo_erro)
           /\ monitoramentos[i].falhas_consecutivas
                 >= RequiredFailures(monitoramentos[i].ultimo_erro)
           /\ Falha(futures'[i].probe)
           /\ ~sistema_em_quarentena)
          => futures'[i].envios["venda"] # "nao"]_vars

\* a blocked sale is attempted once the quarantine is over
C6_Witness ==
    /\ pc = "passo5"
    /\ ~sistema_em_quarentena
    /\ \E i \in DOMAIN futures :
          /\ monitoramentos[i].carro_vendido = 0
          /\ Falha(monitoramentos[i].ultimo_erro)
          /\ monitoramentos[i].falhas_consecutivas
                >= RequiredFailures(monitoramentos[i].ultimo_erro)
          /\ futures[i].envios["venda"] # "nao"

\* C7: the first evaluation (PASSO 1) at or after quarentena_ate clears the
\* quarantine, and the quarantine is cleared by no other step and never
\* before quarentena_ate.
C7_QuarentenaExpira ==
    [][/\ (/\ pc = "passo1" /\ pc' = "passo2"
           /\ sistema_em_quarentena
           /\ quarentena_ate # <<>>
           /\ now >= quarentena_ate[1])
          => (~sistema_em_quarentena' /\ quarentena_ate' = <<>>)
       /\ (sistema_em_quarentena /\ ~sistema_em_quarentena')
          => (pc = "passo1" /\ quarentena_ate # <<>> /\ now >= quarentena_ate[1])]_vars

\* a quarantine started by the failure ratio has been cleared
C7_Witness ==
    /\ pc = "passo2"
    /\ ~sistema_em_quarentena
    /\ quarentena_ate = <<>>
    /\ system_health # <<>>

\* C8: PASSO 6 of a cycle whose share of failing items is at least 70%
\* activates the quarantine until now + QUARENTENA_MINUTOS and appends exactly
\* one health sample with the items checked, the items failed and the ratio;
\* below 70% it changes neither; no other step appends a sample, and the rest
\* of the cycle keeps the quarantine.
C8_LimiteSistemico ==
    [][/\ (pc = "passo5" /\ pc' = "passo7") =>
            LET n == Cardinality(DOMAIN monitoramentos)
                f == Cardinality({i \in DOMAIN futures : Falha(futures[i].probe)})
            IN  /\ n > 0
                /\ IF f * 100 >= 70 * n
                   THEN /\ sistema_em_quarentena'
                        /\ quarentena_ate' = <<now + QUARENTENA_MINUTOS>>
                        /\ system_health' = Append(system_health,
                               [total_verificados |-> n, total_falhas |-> f,
                                porcentagem_falhas |-> (f * 100) \div n,
                                sistema_saudavel |-> 0])
                   ELSE UNCHANGED <<sistema_em_quarentena, quarentena_ate, system_health>>
       /\ (system_health' # system_health) => (pc = "passo5" /\ pc' = "passo7")
       /\ (pc = "passo7") => UNCHANGED <<sistema_em_quarentena, quarentena_ate>>]_vars

\* the failure ratio started a quarantine
C8_Witness ==
    /\ pc = "passo7"
    /\ sistema_em_quarentena
    /\ quarentena_ate = <<now + QUARENTENA_MINUTOS>>
    /\ system_health # <<>>
    /\ system_health[Len(system_health)].total_falhas * 100
          >= 70 * system_health[Len(system_health)].total_verificados

\* C9: the commit of a cycle in which the probe of an item succeeded leaves
\* the row with falhas_consecutivas = 0 and no ultimo_erro.
C9_SucessoZeraFalhas ==
    [][Passo7 =>
          \A i \in updates_list :
             futures[i].probe = "sucesso" =>
                /\ db'[i].falhas_consecutivas = 0
                /\ db'[i].ultimo_erro = "None"]_vars

\* a probe succeeded on an item that had failed twice or more
C9_Witness ==
    \E i \in DOMAIN futures :
       /\ futures[i].probe = "sucesso"
       /\ monitoramentos[i].falhas_consecutivas >= 2
       /\ monitoramentos[i].ultimo_erro # "None"

\* C10: an unsold item whose probes all fail with http_404, from zero failures
\* and no quarantine on, is sold exactly from its 3rd failing cycle on; with
\* timeout, exactly from its 4th.
C10_VendaNaTerceiraFalha ==
    (pc = "idle") =>
       \A i \in Items :
          /\ (serie[i] = "http_404") =>
                (db[i].carro_vendido = 1 <=> db[i].falhas_consecutivas >= FALHAS_PARA_VENDA)
          /\ (serie[i] = "timeout") =>
                (db[i].carro_vendido = 1 <=> db[i].falhas_consecutivas >= FALHAS_PARA_VENDA + 1)

\* daysRemaining of a fetched row, as the running backend computes it
DiasRestantes(mon) ==
    IF versao = "improved" THEN dias_restantes_improved(mon.data_venda)
    ELSE calcular_dias_restantes(mon.data_venda)

\* C11: the commit of a cycle that processed an item with daysRemaining = 0
\* leaves the item expired with exactly one expiry notification delivered; no
\* item ever gets a second one, and no sale or deadline-warning notification
\* is sent for an expired item.
C11_ExpiraComUmAviso ==
    [][/\ Passo7 =>
            \A i \in updates_list :
               DiasRestantes(monitoramentos[i]) = 0 =>
                  /\ db'[i].status = "expirado"
                  /\ entregas[i]["expirado"] = 1
       /\ \A i \in Items : entregas'[i]["expirado"] <= 1
       /\ \A i \in DOMAIN futures' :
             db[i].status = "expirado" =>
                /\ futures'[i].envios["venda"] = "nao"
                /\ futures'[i].envios["prazo"] = "nao"]_vars

\* C12: a cycle whose self-connectivity preflight fails ends there: no row, no
\* health sample, no delivery, no batch and no worker result is changed or
\* created, and the job is idle again for the next trigger.
C12_SemInternetAborta ==
    [][(pc = "passo2" /\ faltas' # faltas) =>
          /\ pc' = "idle"
          /\ futures' = <<>>
          /\ monitoramentos' = <<>>
          /\ UNCHANGED <<db, system_health, entregas, sistema_em_quarentena,
                         quarentena_ate, now, ciclos>>]_vars

\* the cycle after an aborted first cycle has fetched its batch, and the rows
\* still are as created
C12_Witness ==
    /\ versao = "improved"
    /\ ciclos = 2
    /\ pc = "passo5"
    /\ faltas = 1
    /\ system_health = <<>>
    /\ DOMAIN monitoramentos = Items
    /\ \A i \in Items :
          /\ db[i] = NovaLinha(db[i].data_venda, Inicio(versao))
          /\ \A k \in Kinds : entregas[i][k] = 0

Estado(linha) ==
    IF linha.status = "expirado" THEN "expired"
    ELSE IF linha.carro_vendido = 1 THEN "sold" ELSE "active"

\* C15: a step changes the lifecycle state of a row only from active to sold,
\* active to expired or sold to expired; a row whose status is expired is
\* never changed again, never fetched into a batch, never handed to a worker,
\* and nothing more is delivered for it.
C15_ExpiradoTerminal ==
    [][\A i \in Items :
          /\ \/ Estado(db'[i]) = Estado(db[i])
             \/ <<Estado(db[i]), Estado(db'[i])>> \in
                   {<<"active", "sold">>, <<"active", "expired">>, <<"sold", "expired">>}
          /\ db[i].status = "expirado" =>
                /\ db'[i] = db[i]
                /\ i \notin DOMAIN monitoramentos'
                /\ i \notin DOMAIN futures'
                /\ entregas'[i] = entregas[i]]_vars

\* a cycle has fetched its batch, and it left out an expired row
C15_Witness ==
    /\ pc = "passo5"
    /\ DOMAIN monitoramentos # {}
    /\ \E i \in Items : db[i].status = "expirado" /\ i \notin DOMAIN monitoramentos

\* C16: no step takes carro_vendido of a row from 1 back to 0.
C16_VendidoPermanece ==
    [][\A i \in Items : db[i].carro_vendido = 1 => db'[i].carro_vendido = 1]_vars

\* a sold row whose failure count a later successful probe has reset
C16_Witness ==
    \E i \in Items :
       /\ db[i].carro_vendido = 1
       /\ db[i].falhas_consecutivas = 0

\* C17: the exception of one worker changes nothing but the result of that
\* worker; the commit of the cycle leaves the row of a faulted item as it was,
\* writes the updates of every other item of the batch, and ends the cycle.
C17_FalhaIsolada ==
    [][/\ \A i \in DOMAIN futures :
            (futures[i].estado = "pendente" /\ i \in DOMAIN futures'
               /\ futures'[i].estado = "erro") =>
               /\ pc' = pc
               /\ db' = db
               /\ \A j \in DOMAIN futures \ {i} :
                     j \in DOMAIN futures' /\ futures'[j] = futures[j]
       /\ Passo7 =>
            /\ pc' = "idle"
            /\ \A i \in DOMAIN futures :
                  IF futures[i].estado = "erro"
                  THEN db'[i] = db[i]
                  ELSE /\ "ultima_verificacao" \in DOMAIN futures[i].updates
                       /\ \A campo \in DOMAIN futures[i].updates :
                             db'[i][campo] = futures[i].updates[campo]]_vars

\* after the first cycle one row of the batch is as created (its worker
\* raised) and another one has been checked and written
C17_Witness ==
    /\ pc = "idle"
    /\ ciclos = 1
    /\ faltas = 1
    /\ \E i, j \in Items :
          /\ db[i].ultima_verificacao # Inicio(versao)
          /\ db[j] = NovaLinha(db[j].data_venda, Inicio(versao))

\* C18: a cycle starts only when no run is executing: the previous cycle has
\* written its updates (or ended) and no batch or worker result is left; a
\* trigger that fires during a run starts nothing and changes nothing of the
\* run; and within a cycle the result of a worker, once returned, is final,
\* so no item is processed twice.
C18_CiclosNaoSobrepoem ==
    [][/\ (ciclos' # ciclos) =>
            /\ pc = "idle"
            /\ futures = <<>>
            /\ monitoramentos = <<>>
       /\ (pc # "idle" /\ now' # now) =>
            UNCHANGED <<pc, ciclos, db, monitoramentos, futures, entregas,
                        system_health, sistema_em_quarentena, quarentena_ate>>
       /\ (DOMAIN futures' # {} /\ DOMAIN futures = {}) => pc = "passo4"
       /\ \A i \in DOMAIN futures :
             (futures[i].estado # "pendente" /\ i \in DOMAIN futures')
                => futures'[i] = futures[i]]_vars

\* a run that outlasted the next trigger has written its updates
C18_Witness ==
    /\ pc = "idle"
    /\ ciclos >= 1
    /\ now = Inicio(versao) + (CHECK_INTERVAL * (ciclos + 1))
    /\ \E i \in Items : db[i].ultima_verificacao = now - CHECK_INTERVAL

\* C19: the step that computes the batch failure ratio and takes the
\* quarantine decision finds no sale notification already dispatched in a
\* cycle whose ratio reaches the systemic threshold of 70%.
C19_VendaAposDecisao ==
    [][(pc = "passo5" /\ pc' = "passo7") =>
          LET n == Cardinality(DOMAIN monitoramentos)
              f == Cardinality({i \in DOMAIN futures : Falha(futures[i].probe)})
          IN  (f * 100 >= 70 * n) =>
                 \A i \in DOMAIN futures : futures[i].envios["venda"] = "nao"]_vars

\* C20: the commit of a cycle in which the expiry notification of an item was
\* sent and not delivered leaves notificado_expirado at 0 and leaves the item
\* among the rows the next cycles fetch, so that the notification can be
\* attempted again.
C20_ExpiracaoReenviada ==
    [][Passo7 =>
          \A i \in updates_list :
             futures[i].envios["expirado"] = "falhou" =>
                /\ db'[i].notificado_expirado = 0
                /\ i \in Ativos']_vars

\* the deadline warning's own conditions: 1 to 5 days remaining, not yet sent
PrazoDevido(mon) ==
    /\ DiasRestantes(mon) >= 1
    /\ DiasRestantes(mon) <= 5
    /\ mon.notificado_prazo = 0

C21_VendaAcabaEntregue ==
    (/\ pc = "idle"
     /\ ciclos >= (QUARENTENA_MINUTOS \div CHECK_INTERVAL) + 1
     /\ Len(system_health) = ciclos)
       => \A i \in Items :
             (serie[i] = "http_404" /\ db[i].falhas_consecutivas = ciclos)
                => \/ entregas[i]["venda"] >= 1
                   \/ db[i].carro_vendido = 1

\* consecutiveFailures of a batch item as the cycle's commit leaves it
FalhasPersistidas(i) ==
    IF i \in updates_list THEN aplica_updates(futures[i].updates, db[i]).falhas_consecutivas
    ELSE db[i].falhas_consecutivas

\* C22 (as stated): the failure count fed to the quarantine decision is the
\* number of batch items whose persisted consecutiveFailures is above 0 after
\* the cycle, whatever mix of failing, succeeding, expiring and faulting items
\* the batch holds.
C22_RazaoPersistida ==
    [][(pc = "passo5" /\ pc' = "passo7") =>
          total_falhas =
             Cardinality({i \in DOMAIN monitoramentos : FalhasPersistidas(i) > 0})]_vars

\* C22 (amended): the failure count fed to the quarantine decision is the
\* number of batch items whose probe failed in this cycle, over the number of
\* items in the batch; an item that expired or whose worker raised counts in
\* the batch size only, whatever its stored counter is.  A sample written by
\* the step records exactly these numbers.
C22_RazaoDoCiclo ==
    [][(pc = "passo5" /\ pc' = "passo7") =>
          LET n == Cardinality(DOMAIN monitoramentos)
              f == Cardinality({i \in DOMAIN futures : Falha(futures[i].probe)})
          IN  /\ total_falhas = f
              /\ Len(system_health') > Len(system_health) =>
                    /\ system_health'[Len(system_health')].total_falhas = f
                    /\ system_health'[Len(system_health')].total_verificados = n]_vars

\* the ratio was computed for a batch in which one item failed its probe and
\* another one, with a stored failure count above 0, expired or raised
C22_Witness ==
    /\ pc = "passo7"
    /\ \E i \in DOMAIN futures, j \in DOMAIN futures :
          /\ Falha(futures[i].probe)
          /\ futures[j].probe = "nenhum"
          /\ db[j].falhas_consecutivas > 0

\* C23: the batch fetched by a cycle holds only active items, exactly
\* min(BATCH_SIZE, number of active items) of them, each once, and no active
\* item left out was checked longer ago than an item of the batch; a worker
\* that returns stamps its item with the time of the cycle, and the commit
\* writes that time to lastCheckedAt.
C23_LoteMaisAntigos ==
    [][/\ (pc = "passo4" /\ pc' # "passo4") =>
            LET S == DOMAIN monitoramentos'
                A == {i \in Items : db[i].status = "ativo"}
            IN  /\ S \subseteq A
                /\ Cardinality(S) = Min(config.batch_size, Cardinality(A))
                /\ DOMAIN futures' = S
                /\ \A i \in S : monitoramentos'[i] = db[i]
                /\ \A i \in S : \A j \in A \ S :
                      db[j].ultima_verificacao >= db[i].ultima_verificacao
       /\ \A i \in Items :
             WorkerRetorna(i) => futures'[i].updates["ultima_verificacao"] = now
       /\ Passo7 =>
             \A i \in updates_list :
                db'[i].ultima_verificacao = futures[i].updates["ultima_verificacao"]]_vars

\* a batch smaller than the set of active items was fetched, and the item left
\* out had been checked in a later cycle than the item fetched
C23_Witness ==
    /\ pc = "passo5"
    /\ Cardinality(DOMAIN monitoramentos) = config.batch_size
    /\ \E i \in DOMAIN monitoramentos, j \in Ativos \ DOMAIN monitoramentos :
          /\ db[j].ultima_verificacao > db[i].ultima_verificacao
          /\ db[i].ultima_verificacao > Inicio(versao)

\* C24: in cycles that all commit, an item that stays active is never left
\* out of ceil(N / B) batches in a row, B being the batch size and N the
\* number of items (no more than N items are ever active), also when the
\* worker of another item raises.
C24_EsperaLimitada ==
    \A i \in Ativos :
       espera[i] < (Cardinality(Items) + config.batch_size - 1) \div config.batch_size

\* C25: every failure that a worker adds to the counter of an unsold item
\* comes from a probe request sent in that cycle, never from an answer kept
\* from an earlier cycle; so the failures that reach the sale threshold come
\* from as many different requests, for any CHECK_INTERVAL.
C25_FalhaDePedidoNovo ==
    [][\A i \in Items :
          (/\ WorkerRetorna(i)
           /\ monitoramentos[i].carro_vendido = 0
           /\ Falha(futures'[i].probe))
             => \/ cache[i] = <<>>
                \/ cache[i][1] # now \div CACHE_MINUTOS]_vars

\* C26: a worker that processes an active, non-expired item attempts the
\* deadline warning exactly when 0 < daysRemaining <= 5 and notifiedDeadline
\* is unset; the commit of a cycle whose warning was not delivered leaves the
\* marker unset, so that the next cycle attempts it again; and once a delivery
\* of the warning was confirmed no worker attempts it again.
C26_AvisoDePrazo ==
    [][/\ \A i \in Items :
             (WorkerRetorna(i) /\ futures'[i].probe # "nenhum") =>
                /\ (futures'[i].envios["prazo"] # "nao") <=>
                      (/\ DiasRestantes(monitoramentos[i]) > 0
                       /\ DiasRestantes(monitoramentos[i]) <= ALERTA_PRAZO_DIAS
                       /\ monitoramentos[i].notificado_prazo = 0)
                /\ entregas[i]["prazo"] >= 1 => futures'[i].envios["prazo"] = "nao"
       /\ Passo7 =>
             \A i \in updates_list :
                futures[i].envios["prazo"] = "falhou" => db'[i].notificado_prazo = 0]_vars

\* C27: a worker dispatches the weekly update only for an item that is active
\* and whose sold flag is not set at that moment: not for a row fetched as
\* sold, and not in the cycle in which the worker itself infers the sale.
C27_SemanalSoNaoVendido ==
    [][\A i \in Items :
          (WorkerRetorna(i) /\ futures'[i].envios["semanal"] # "nao") =>
             /\ monitoramentos[i].status = "ativo"
             /\ monitoramentos[i].carro_vendido = 0
             /\ "carro_vendido" \notin DOMAIN futures'[i].updates]_vars

\* C28: the weekly update of an item is delivered at most once per calendar
\* date (every cycle of a run falls on the date of the start, a Friday); it is
\* attempted only inside the window (Friday, 10h00 to 10h59); and the commit
\* of a cycle whose weekly update was not delivered leaves the marker as it
\* was, so that the next cycle inside the window attempts it again.
C28_SemanalUmaPorDia ==
    [][/\ \A i \in Items :
             (dia(now') = dia(Inicio(versao))) => entregas'[i]["semanal"] <= 1
       /\ \A i \in Items :
             (WorkerRetorna(i) /\ futures'[i].envios["semanal"] # "nao") =>
                (weekday(now) = DIA_SEMANAL /\ hora(now) = HORA_SEMANAL)
       /\ Passo7 =>
             \A i \in updates_list :
                futures[i].envios["semanal"] = "falhou" =>
                   db'[i].ultima_notificacao_semanal = db[i].ultima_notificacao_semanal]_vars

\* the deadline of a row: the day referenceDate + 45
Prazo(mon) == mon.data_venda + PRAZO_DAYS

\* the worker's result expires the item
Expira(r) == "status" \in DOMAIN r.updates /\ r.updates["status"] = "expirado"

\* C29 (as stated): a worker expires its item exactly when the deadline is
\* strictly before today's date; when the deadline is today or later the item
\* is not expired and is probed.
C29_ExpiraDepoisDoPrazo ==
    [][\A i \in Items :
          WorkerRetorna(i) =>
             /\ Expira(futures'[i]) <=> Prazo(monitoramentos[i]) < dia(now)
             /\ Prazo(monitoramentos[i]) >= dia(now) => futures'[i].probe # "nenhum"]_vars

\* C29 (amended): a worker expires its item exactly when the deadline has been
\* reached: in app.py when the deadline is today's date or earlier, in
\* app_improved.py when the start of the deadline date lies before the current
\* time.  An item that is expired is not probed, any other item is.
C29_ExpiraNoPrazo ==
    [][\A i \in Items :
          WorkerRetorna(i) =>
             LET vencido == IF versao = "app"
                            THEN Prazo(monitoramentos[i]) <= dia(now)
                            ELSE Prazo(monitoramentos[i]) * MinutosPorDia < now
             IN  /\ Expira(futures'[i]) <=> vencido
                 /\ (futures'[i].probe = "nenhum") <=> vencido]_vars

\* an item was expired, without a probe, on the very date of its deadline
C29_Witness ==
    /\ pc = "passo5"
    /\ \E i \in DOMAIN futures :
          /\ futures[i].estado = "ok"
          /\ Expira(futures[i])
          /\ futures[i].probe = "nenhum"
          /\ Prazo(monitoramentos[i]) = dia(now)

\* whole days from today's date to the deadline, as the specification defines
\* daysRemaining (never negative)
DiasDeCalendario(mon) == Max(0, Prazo(mon) - dia(now))

\* C30: the daysRemaining on which a worker decides is the number of whole
\* days from today's date to referenceDate + 45, whatever the time of day, so
\* that the expiry and the deadline-warning decisions of two cycles on the
\* same date agree: the item is expired exactly when that number is 0, and the
\* warning is attempted exactly when it is 1 to 5 and the marker is unset.
C30_SoDatas ==
    [][\A i \in Items :
          WorkerRetorna(i) =>
             LET d == DiasDeCalendario(monitoramentos[i]) IN
             /\ Max(0, DiasRestantes(monitoramentos[i])) = d
             /\ Expira(futures'[i]) <=> d = 0
             /\ (futures'[i].envios["prazo"] # "nao") <=>
                   (d > 0 /\ d <= ALERTA_PRAZO_DIAS
                    /\ monitoramentos[i].notificado_prazo = 0)]_vars

\* the classification the specification prescribes for an outcome (its
\* client-error kind is the http_404 of TipoErro)
Classificacao(r) ==
    IF r.classe = "response"
    THEN (IF r.status \in 200..299 THEN "sucesso"
          ELSE IF r.status \in 400..499 THEN "http_404"
          ELSE IF r.status \in 500..599 THEN "http_500"
          ELSE "http_other")
    ELSE IF r.classe = "Timeout" THEN "timeout"
    ELSE IF r.classe = "ConnectionError"
         THEN (IF r.mensagem \in MensagensDNS THEN "dns_error" ELSE "connection_error")
    ELSE "unknown"

\* C31: a call of the prober that sent a request returns reachable (kind
\* success) exactly for a status in the 200 range, and otherwise the one kind of
\* the taxonomy that the outcome belongs to: client error for 4xx, server error
\* for 5xx, http-other for other statuses, timeout, DNS error for a
\* name-resolution failure, connection error, unknown.
C31_Taxonomia ==
    (retorno # <<>> /\ retorno.pedido # <<>>) =>
       /\ retorno.tipo_erro \in TipoErro
       /\ retorno.tipo_erro = Classificacao(retorno.pedido[1])

\* C32: a call of the prober for a link whose cache holds an answer under the
\* key of the current 5-minute bucket returns that answer and sends no
\* request; a call in a bucket for which nothing is stored sends exactly one
\* request and stores its classification under the key of that bucket.
C32_CachePorJanela ==
    [][\A i \in Items :
          (retorno' # retorno /\ retorno'.link = i) =>
             LET chave == now \div CACHE_MINUTOS IN
             IF cache[i] # <<>> /\ cache[i][1] = chave
             THEN /\ retorno'.tipo_erro = cache[i][2]
                  /\ pedidos'[i] = pedidos[i]
                  /\ cache' = cache
             ELSE /\ pedidos'[i] = pedidos[i] + 1
                  /\ retorno'.pedido # <<>>
                  /\ cache'[i] = <<chave, retorno'.tipo_erro>>]_vars

\* a second call in the same bucket was answered from the cache after the
\* link had been probed in an earlier bucket as well
C32_Witness ==
    /\ retorno # <<>>
    /\ retorno.pedido = <<>>
    /\ pedidos[retorno.link] = 2
    /\ retorno.chave = (Inicio(versao) \div CACHE_MINUTOS) + 1

\* C33: a finished preflight check (self-connectivity or provider health) has
\* returned true exactly when at least one of its endpoints answers 200, and it
\* has tried every endpoint that no successful endpoint precedes: an exception
\* or another status of an earlier endpoint did not stop the loop.
C33_PreflightDisjuncao ==
    (preflight # <<>> /\ preflight.resultado # "pendente") =>
       LET sites == preflight.sites IN
       /\ (preflight.resultado = "True") <=> (\E k \in DOMAIN sites : sites[k] = "200")
       /\ \A k \in DOMAIN sites :
             (\A j \in 1..(k - 1) : sites[j] # "200") => k \in preflight.tentados

\* the self-connectivity check returned true on its third endpoint after an
\* exception of the first and a 503 of the second
C33_Witness ==
    /\ preflight # <<>>
    /\ preflight.check = "servidor"
    /\ preflight.resultado = "True"
    /\ preflight.sites = <<"excecao", "503", "200">>
    /\ preflight.tentados = {1, 2, 3}

\* C34: a commit sets the sold flag of an item only in a cycle in which the
\* worker of the item called the sale send, or for an item whose sale marker
\* shows an earlier confirmed send; so in every persisted state an item whose
\* sold flag is set has had its sale notification attempted.
C34_VendidoFoiTentado ==
    [][\A i \in Items :
          (db[i].carro_vendido = 0 /\ db'[i].carro_vendido = 1) =>
             /\ i \in DOMAIN futures
             /\ \/ futures[i].envios["venda"] \in {"ok", "falhou"}
                \/ db[i].notificado_venda = 1]_vars

\* an item is persisted as sold although its sale send was not delivered
C34_Witness ==
    /\ pc = "idle"
    /\ \E i \in Items :
          /\ db[i].carro_vendido = 1
          /\ db[i].notificado_venda = 0

\* ------------------------------------------------------------ C35
\* C35 as stated: the quarantine state changes only in the step that follows
\* the aggregation of the workers' results (PASSO 6).
C35_SoPosAgregacao ==
    [][(<<sistema_em_quarentena, quarentena_ate>>' # <<sistema_em_quarentena, quarentena_ate>>)
          => (pc = "passo5" /\ pc' = "passo7")]_vars

\* C35 amended: the quarantine state changes only in steps of the scheduler's
\* run of the cycle, namely PASSO 1 and PASSO 3 before any worker is started
\* and PASSO 6 once no worker is pending; a worker's step and a request to
\* /api/health leave it as it is, so all workers of one cycle read one value.
C35_SoOAgendador ==
    [][/\ (<<sistema_em_quarentena, quarentena_ate>>' # <<sistema_em_quarentena, quarentena_ate>>)
            => \/ pc \in {"passo1", "passo3"} /\ futures = <<>>
               \/ /\ pc = "passo5"
                  /\ pc' = "passo7"
                  /\ \A i \in DOMAIN futures : futures[i].estado # "pendente"
       /\ (futures' # futures /\ pc = "passo5" /\ pc' = "passo5")
            => UNCHANGED <<sistema_em_quarentena, quarentena_ate>>
       /\ (retorno' # retorno)
            => UNCHANGED <<sistema_em_quarentena, quarentena_ate>>]_vars

\* PASSO 3 of the running cycle started the quarantine, one worker has returned
\* and another is pending, and /api/health has reported the quarantine
C35_Witness ==
    /\ pc = "passo5"
    /\ sistema_em_quarentena
    /\ quarentena_ate = <<now + QUARENTENA_MINUTOS>>
    /\ \E i \in DOMAIN futures : futures[i].estado = "ok"
    /\ \E i \in DOMAIN futures : futures[i].estado = "pendente"
    /\ retorno # <<>>
    /\ retorno.quarentena
    /\ retorno.quarentena_ate = quarentena_ate

\* ------------------------------------------------------------ C36
\* C36: every started cycle ends, whatever the preflight, the probes, the sends
\* and the workers' faults were, and after it the scheduler starts the next
\* cycle: in every run all the MaxCiclos cycles of the model are started and
\* the last of them ends.  A cycle that never ended, or an ended cycle that
\* the scheduler did not follow with another, would keep the run from there.
C36_CicloTermina == <>[](pc = "idle" /\ ciclos = MaxCiclos)

\* a cycle that followed an aborted or faulty one has ended with the quarantine
\* on and a send that failed
C36_Witness ==
    /\ pc = "idle"
    /\ ciclos = MaxCiclos
    /\ faltas = MaxFaltas
    /\ sistema_em_quarentena
    /\ \E i \in Items : db[i].carro_vendido = 1 /\ db[i].notificado_venda = 0

\* ------------------------------------------------------------ C37
\* C37: the flag is on exactly when the end of the quarantine is set; a step
\* that sets the end sets it to the time of the step plus QUARENTENA_MINUTOS,
\* and a step that leaves the quarantine on never moves its end backwards.
C37_FlagEFim ==
    /\ [](sistema_em_quarentena <=> quarentena_ate # <<>>)
    /\ [][/\ (quarentena_ate' # quarentena_ate /\ quarentena_ate' # <<>>)
               => quarentena_ate'[1] = now + QUARENTENA_MINUTOS
          /\ (quarentena_ate # <<>> /\ quarentena_ate' # <<>>)
               => quarentena_ate'[1] >= quarentena_ate[1]]_vars

\* the second cycle has started the quarantine again while the quarantine of
\* the first cycle was still running
C37_Witness ==
    /\ pc = "passo7"
    /\ ciclos = 2
    /\ Len(system_health) = 2
    /\ sistema_em_quarentena
    /\ quarentena_ate = <<now + QUARENTENA_MINUTOS>>

\* ------------------------------------------------------------ C38
\* C38: a request is refused only if it is the 21st or a later attempt of the
\* IP within the hour that ends with it, or if it falls inside the block that
\* such an attempt started.
C38_RecusaSoPorExcesso ==
    [][(historico'.chamadas # historico.chamadas /\ ~retorno'.permitido) =>
          \/ TentativasNaHora(historico') > LIMITE_TENTATIVAS
          \/ /\ rate_limit # <<>>
             /\ rate_limit.bloqueado_ate # <<>>
             /\ now < rate_limit.bloqueado_ate[1]
             /\ historico.excesso]_vars

\* ------------------------------------------------------------ C39
\* C39: the active items created from one origin IP never number more than
\* MAX_MONITORAMENTOS_POR_IP.
C39_LimitePorIP == ativos_ip <= MAX_MONITORAMENTOS_POR_IP

====
